---- MODULE Spec2Model ----
(***************************************************************************)
(* The device core of embassy-usb (src/embassy-usb/src/lib.rs): the device *)
(* state, the run loop racing bus events against Setup packets, class      *)
(* dispatch, the standard request tables and descriptor resolution.        *)
(*                                                                         *)
(* Collaborators (Bus, ControlPipe, classes) are traits; the model keeps   *)
(* a log of the calls the core makes on them during one run-loop           *)
(* iteration (trace), the bytes handed to accept_in (sent) and the stall   *)
(* flags the Bus was told to set (stalled).  Classes answer each offer     *)
(* with an arbitrary status.                                               *)
(***************************************************************************)
EXTENDS Integers, Sequences, FiniteSets, TLC

VARIABLES
    device_state,            \* lib.rs:68
    remote_wakeup_enabled,   \* lib.rs:69
    self_powered,            \* lib.rs:70
    pending_address,         \* lib.rs:71
    stalled,                 \* endpoints the Bus was told to stall (set_stalled(ep, true))
    pc,                      \* position of run(): an await point or a terminal state
    req,                     \* the Request of the control transfer being handled
    trace,                   \* calls made on Bus, ControlPipe and classes this iteration
    sent,                    \* the bytes handed to ControlPipe::accept_in this iteration
    bus_ready,               \* the event Bus::poll will yield, "None" while it is pending
    setup_ready              \* the Setup packet ControlPipe::setup will yield, NoReq while pending

vars == <<device_state, remote_wakeup_enabled, self_powered, pending_address,
          stalled, pc, req, trace, sent, bus_ready, setup_ready>>

\* lib.rs:110-111: what the two futures raced by select have to offer
ready == <<bus_ready, setup_ready>>

core == <<device_state, remote_wakeup_enabled, self_powered, pending_address>>

(***************************************************************************)
(* Bounds of the model.                                                    *)
(***************************************************************************)
\* number of registered classes (at most MAX_CLASS_COUNT)
NumClasses == 2
\* longest reply a class hands back on control_in
MaxClassData == 1

(***************************************************************************)
(* Program constants.                                                      *)
(***************************************************************************)
CONFIGURATION_NONE == 0
CONFIGURATION_VALUE == 1
DEFAULT_ALTERNATE_SETTING == 0
MAX_CLASS_COUNT == 4

\* control.rs: standard request codes and feature selectors (USB 2.0 table 9-4, 9-6)
GET_STATUS == 0
CLEAR_FEATURE == 1
SET_FEATURE == 3
SET_ADDRESS == 5
GET_DESCRIPTOR == 6
SET_DESCRIPTOR == 7
GET_CONFIGURATION == 8
SET_CONFIGURATION == 9
GET_INTERFACE == 10
SET_INTERFACE == 11
FEATURE_ENDPOINT_HALT == 0
FEATURE_DEVICE_REMOTE_WAKEUP == 1

\* descriptor.rs: descriptor_type and lang_id
DT_DEVICE == 1
DT_CONFIGURATION == 2
DT_STRING == 3
DT_INTERFACE == 4
DT_BOS == 15
ENGLISH_US == 1033

UsbDeviceState == {"Default", "Addressed", "Configured", "Suspend"}
Event == {"Reset", "Resume", "Suspend"}
RequestStatus == {"Accepted", "Rejected", "Unhandled"}

(***************************************************************************)
(* Integer helpers: the code's casts and byte conversions.                 *)
(***************************************************************************)
Min(a, b) == IF a < b THEN a ELSE b

\* x as u8
AsU8(x) == x % 256

\* u16::to_le_bytes
U16LeBytes(x) == << x % 256, (x \div 256) % 256 >>

\* u8::to_le_bytes
U8LeBytes(x) == << x % 256 >>

\* the byte kept whole: bits 0..6 and bit 7
AndFF(b) == b % 256

\* (b & 0x8f) for a byte b: bits 0..3 and bit 7
And8F(b) == (b % 16) + 128 * ((b \div 128) % 2)

\* ((req.index as u8) & 0x8f).into(): the EndpointAddress named by index
EndpointOf(index) == And8F(AsU8(index))

\* &buf[..n]
Take(s, n) == SubSeq(s, 1, Min(n, Len(s)))

(***************************************************************************)
(* Construction-time inputs (build, lib.rs:77-106): the three static       *)
(* descriptor buffers and the Config strings.  Strings are sequences of    *)
(* UTF-16 code units; an Option is a record with a some flag.              *)
(***************************************************************************)
Some(s) == [some |-> TRUE, s |-> s]
None == [some |-> FALSE, s |-> <<>>]

device_descriptor ==
    <<18, 1, 0, 2, 0, 0, 0, 64, 192, 22, 220, 39, 16, 0, 1, 2, 3, 1>>
config_descriptor == <<9, 2, 9, 0, 0, 1, 0, 128, 50>>
bos_descriptor == <<5, 15, 5, 0, 0>>

\* Config { manufacturer, product, serial_number }: Option<&str>
config == [manufacturer  |-> Some(<<69, 109>>),
           product       |-> None,
           serial_number |-> Some(<<49>>)]

(***************************************************************************)
(* DescriptorWriter (descriptor.rs): write and string append one           *)
(* descriptor, bLength, bDescriptorType, then the body, to the bytes       *)
(* written so far; position is the number of bytes written.                *)
(***************************************************************************)
RECURSIVE Utf16Le(_)
Utf16Le(s) == IF s = <<>> THEN <<>> ELSE U16LeBytes(Head(s)) \o Utf16Le(Tail(s))

\* DescriptorWriter::write(descriptor_type, descriptor)
WriterWrite(w, dtype, descriptor) == w \o <<Len(descriptor) + 2, dtype>> \o descriptor

\* DescriptorWriter::string(s)
WriterString(w, s) == w \o <<2 + 2 * Len(s), DT_STRING>> \o Utf16Le(s)

\* Request::descriptor_type_index: (value >> 8) as u8, value as u8
DescriptorTypeIndex(value) == << (value \div 256) % 256, value % 256 >>

(***************************************************************************)
(* Inputs: the Setup packets the host may send, the answers a class may    *)
(* give, the events the Bus may report.                                    *)
(***************************************************************************)
Directions == {"In", "Out"}
RequestTypes == {"Standard", "Class"}
Recipients == {"Device", "Interface", "Endpoint"}
RequestCodes == {GET_STATUS, CLEAR_FEATURE, SET_FEATURE, SET_ADDRESS, GET_DESCRIPTOR,
                 SET_DESCRIPTOR, GET_CONFIGURATION, SET_CONFIGURATION, GET_INTERFACE,
                 SET_INTERFACE}
Values == {0, 1, 2, 127, 128,
           256 * DT_DEVICE, 256 * DT_CONFIGURATION, 256 * DT_BOS, 256 * DT_INTERFACE,
           256 * DT_STRING, 256 * DT_STRING + 1, 256 * DT_STRING + 2,
           256 * DT_STRING + 3, 256 * DT_STRING + 99}
Indices == {1, 17, 129, 257}
Lengths == {0, 2, 255}

Request(d, t, rc, rq, v, i, l) ==
    [direction |-> d, request_type |-> t, recipient |-> rc, request |-> rq,
     value |-> v, index |-> i, length |-> l]

\* every direction, type, recipient and request code, with and without a data stage
HeaderSweep ==
    {Request(d, t, rc, rq, v, 1, l) :
        d \in Directions, t \in RequestTypes, rc \in Recipients, rq \in RequestCodes,
        v \in {0, 1}, l \in {0, 2}}

\* every value and length, for the standard requests to the device
ValueSweep ==
    {Request(d, "Standard", "Device", rq, v, 1, l) :
        d \in Directions, rq \in RequestCodes, v \in Values, l \in Lengths}

\* every index, for the standard requests to an endpoint
IndexSweep ==
    {Request(d, "Standard", "Endpoint", rq, v, i, l) :
        d \in Directions, rq \in {GET_STATUS, CLEAR_FEATURE, SET_FEATURE},
        v \in {0, 1}, i \in Indices, l \in {0, 2}}

Requests == HeaderSweep \cup ValueSweep \cup IndexSweep

NoReq == [direction |-> "None", request_type |-> "None", recipient |-> "None",
          request |-> 0, value |-> 0, index |-> 0, length |-> 0]

Classes == 1..NumClasses

\* what a class may hand back on control_in when it accepts
ClassData == {[i \in 1..n |-> 170] : n \in 0..MaxClassData}

ClassAnswers == {[status |-> "Unhandled", data |-> <<>>],
                 [status |-> "Rejected", data |-> <<>>]}
                \cup {[status |-> "Accepted", data |-> d] : d \in ClassData}

\* control_out carries no reply data
ClassOutAnswers == {a \in ClassAnswers : a.data = <<>>}

\* one entry of the call log: the operation, its argument, what it returned
Call(op, arg) == [op |-> op, arg |-> arg, ret |-> ""]
Returned(op, arg, ret) == [op |-> op, arg |-> arg, ret |-> ret]

(***************************************************************************)
(* Class dispatch: the for loops of handle_control_out (lib.rs:165-171)    *)
(* and handle_control_in (lib.rs:246-261).  answers[i] is what class i     *)
(* returns if it is offered the request.  The result names the classes     *)
(* that were invoked, in order, with what each returned, and the status    *)
(* that ended the loop.                                                    *)
(***************************************************************************)
\* the loop without its returns: every class is offered the request and the
\* first answer that is not Unhandled decides
RECURSIVE OfferAllFrom(_, _)
OfferAllFrom(answers, i) ==
    IF i > NumClasses
    THEN [status |-> "Unhandled", data |-> <<>>, invoked |-> <<>>]
    ELSE LET rest == OfferAllFrom(answers, i + 1)
             here == <<[class |-> i, status |-> answers[i].status]>>
         IN  IF answers[i].status = "Unhandled"
             THEN [rest EXCEPT !.invoked = here \o @]
             ELSE [status |-> answers[i].status, data |-> answers[i].data,
                   invoked |-> here \o rest.invoked]

RECURSIVE OfferFrom(_, _)
OfferFrom(answers, i) ==
    IF i > NumClasses
    THEN [status |-> "Unhandled", data |-> <<>>, invoked |-> <<>>]
    ELSE IF answers[i].status = "Unhandled"
         THEN LET rest == OfferFrom(answers, i + 1)
              IN  [rest EXCEPT !.invoked = <<[class |-> i, status |-> "Unhandled"]>> \o @]
         ELSE [status |-> answers[i].status, data |-> answers[i].data,
               invoked |-> <<[class |-> i, status |-> answers[i].status]>>]

ClassDispatch(answers) == OfferFrom(answers, 1)

\* the outcomes of the loop over every way the classes may answer
InDispatches == {ClassDispatch(a) : a \in [Classes -> ClassAnswers]}
OutDispatches == {ClassDispatch(a) : a \in [Classes -> ClassOutAnswers]}

InvokedCalls(op, invoked) ==
    [k \in 1..Len(invoked) |-> Returned(op, invoked[k].class, invoked[k].status)]

(***************************************************************************)
(* Bus (driver.rs): the core's view of the stall flags.                    *)
(***************************************************************************)
\* Bus::is_stalled(ep)
BusIsStalled(ep) == ep \in stalled

\* Bus::set_stalled(ep, true)
BusSetStalled(ep) == stalled \cup {ep}

(***************************************************************************)
(* What a handler does: the new values of the fields it may assign, the    *)
(* calls it makes in order, and the bytes it hands to accept_in.           *)
(***************************************************************************)
Keep == [device_state |-> device_state,
         remote_wakeup_enabled |-> remote_wakeup_enabled,
         pending_address |-> pending_address,
         stalled |-> stalled,
         calls |-> <<>>,
         sent |-> <<>>]

\* self.control.accept()
Accept(e) == [e EXCEPT !.calls = @ \o <<Call("accept", 0)>>]

\* self.control.reject()
Reject(e) == [e EXCEPT !.calls = @ \o <<Call("reject", 0)>>]

\* self.control.accept_in(data)
AcceptIn(e, data) ==
    [e EXCEPT !.calls = @ \o <<Call("accept_in", Len(data))>>, !.sent = data]

(***************************************************************************)
(* handle_control_out, lib.rs:178-241: the standard request table.         *)
(***************************************************************************)
\* deconfiguring always falls back to Default
SetConfigurationNoneToDefault(e) ==
    Accept([e EXCEPT !.device_state = "Default"])

\* deconfiguring always leaves Addressed
SetConfigurationNoneToAddressed(e) ==
    Accept([e EXCEPT !.device_state = "Addressed"])

\* lib.rs:221-231
SetConfigurationNone(e) ==
    IF e.device_state = "Default"
    THEN Accept(e)
    ELSE Accept([e EXCEPT !.device_state = "Addressed"])

\* lib.rs:203-207
SetFeatureEndpointHalt(e, r) ==
    LET ep == EndpointOf(r.index)
    IN  Accept([e EXCEPT !.stalled = BusSetStalled(ep),
                         !.calls = @ \o <<Call("bus.set_stalled", ep)>>])

\* the un-stall wired to the Bus
ClearFeatureEndpointHaltUnstalls(e, r) ==
    LET ep == EndpointOf(r.index)
    IN  Accept([e EXCEPT !.stalled = @ \ {ep},
                         !.calls = @ \o <<Call("bus.set_stalled", ep)>>])

\* lib.rs:189-192: the call of set_stalled(ep, false) is commented out
ClearFeatureEndpointHalt(e, r) == Accept(e)

\* the address accepted but not latched
SetAddressNotLatched(e, r) == Accept(e)

\* lib.rs:209-214
SetAddress(e, r) == Accept([e EXCEPT !.pending_address = AsU8(r.value)])

\* the table consulted without looking at the request type
StandardControlOutAnyType(r) ==
    CASE r.recipient = "Device" /\ r.request = CLEAR_FEATURE
            /\ r.value = FEATURE_DEVICE_REMOTE_WAKEUP
            -> Accept([Keep EXCEPT !.remote_wakeup_enabled = FALSE])
      [] r.recipient = "Endpoint" /\ r.request = CLEAR_FEATURE
            /\ r.value = FEATURE_ENDPOINT_HALT
            -> ClearFeatureEndpointHalt(Keep, r)
      [] r.recipient = "Device" /\ r.request = SET_FEATURE
            /\ r.value = FEATURE_DEVICE_REMOTE_WAKEUP
            -> Accept([Keep EXCEPT !.remote_wakeup_enabled = TRUE])
      [] r.recipient = "Endpoint" /\ r.request = SET_FEATURE
            /\ r.value = FEATURE_ENDPOINT_HALT
            -> SetFeatureEndpointHalt(Keep, r)
      [] r.recipient = "Device" /\ r.request = SET_ADDRESS
            /\ r.value \in 1..127
            -> SetAddress(Keep, r)
      [] r.recipient = "Device" /\ r.request = SET_CONFIGURATION
            /\ r.value = CONFIGURATION_VALUE
            -> Accept([Keep EXCEPT !.device_state = "Configured"])
      [] r.recipient = "Device" /\ r.request = SET_CONFIGURATION
            /\ r.value = CONFIGURATION_NONE
            -> SetConfigurationNone(Keep)
      [] r.recipient = "Interface" /\ r.request = SET_INTERFACE
            /\ r.value = DEFAULT_ALTERNATE_SETTING
            -> Accept(Keep)
      [] OTHER -> Reject(Keep)

StandardControlOut(r) ==
    IF r.request_type = "Standard"
    THEN CASE r.recipient = "Device" /\ r.request = CLEAR_FEATURE
                /\ r.value = FEATURE_DEVICE_REMOTE_WAKEUP
                -> Accept([Keep EXCEPT !.remote_wakeup_enabled = FALSE])
           [] r.recipient = "Endpoint" /\ r.request = CLEAR_FEATURE
                /\ r.value = FEATURE_ENDPOINT_HALT
                -> ClearFeatureEndpointHalt(Keep, r)
           [] r.recipient = "Device" /\ r.request = SET_FEATURE
                /\ r.value = FEATURE_DEVICE_REMOTE_WAKEUP
                -> Accept([Keep EXCEPT !.remote_wakeup_enabled = TRUE])
           [] r.recipient = "Endpoint" /\ r.request = SET_FEATURE
                /\ r.value = FEATURE_ENDPOINT_HALT
                -> SetFeatureEndpointHalt(Keep, r)
           [] r.recipient = "Device" /\ r.request = SET_ADDRESS
                /\ r.value \in 1..127
                -> SetAddress(Keep, r)
           [] r.recipient = "Device" /\ r.request = SET_CONFIGURATION
                /\ r.value = CONFIGURATION_VALUE
                -> Accept([Keep EXCEPT !.device_state = "Configured"])
           [] r.recipient = "Device" /\ r.request = SET_CONFIGURATION
                /\ r.value = CONFIGURATION_NONE
                -> SetConfigurationNone(Keep)
           [] r.recipient = "Interface" /\ r.request = SET_INTERFACE
                /\ r.value = DEFAULT_ALTERNATE_SETTING
                -> Accept(Keep)
           [] OTHER -> Reject(Keep)
    ELSE Reject(Keep)

\* a data stage read for every OUT request
HasDataStageAlways(r) == r.length >= 0

\* lib.rs:158: the data stage is read only when req.length > 0
HasDataStage(r) == r.length > 0

\* the standard table applied before the classes are asked: a class that
\* rejects no longer stops its effects
HandleControlOutTableFirst(r, d) ==
    LET e == StandardControlOut(r)
        calls == InvokedCalls("class.control_out", d.invoked)
    IN  CASE d.status = "Accepted" -> Accept([e EXCEPT !.calls = calls])
          [] d.status = "Rejected" -> Reject([e EXCEPT !.calls = calls])
          [] OTHER -> [e EXCEPT !.calls = calls \o @]

\* lib.rs:165-241: class dispatch, then the standard table
HandleControlOut(r, d) ==
    LET offered == [Keep EXCEPT !.calls = InvokedCalls("class.control_out", d.invoked)]
    IN  CASE d.status = "Accepted" -> Accept(offered)
          [] d.status = "Rejected" -> Reject(offered)
          [] OTHER -> LET e == StandardControlOut(r)
                      IN  [e EXCEPT !.calls = offered.calls \o @]

(***************************************************************************)
(* control_in_accept_writer, lib.rs:143-153: f has written `written`;      *)
(* the reply is cut to req.length.                                         *)
(***************************************************************************)
ControlInAcceptWriter(e, r, written) ==
    LET pos == Min(Len(written), r.length)
    IN  AcceptIn(e, Take(written, pos))

(***************************************************************************)
(* handle_get_descriptor, lib.rs:313-354.                                  *)
(***************************************************************************)
\* lib.rs:329-342
StringOf(index) ==
    CASE index = 1 -> config.manufacturer
      [] index = 2 -> config.product
      [] index = 3 -> config.serial_number
      [] OTHER -> None

\* an unresolved string answered with an empty descriptor
HandleGetDescriptorEmptyString(e, r) ==
    LET dtype == DescriptorTypeIndex(r.value)[1]
        index == DescriptorTypeIndex(r.value)[2]
    IN  CASE dtype = DT_BOS -> AcceptIn(e, bos_descriptor)
          [] dtype = DT_DEVICE -> AcceptIn(e, device_descriptor)
          [] dtype = DT_CONFIGURATION -> AcceptIn(e, config_descriptor)
          [] dtype = DT_STRING ->
                IF index = 0
                THEN ControlInAcceptWriter(e, r,
                         WriterWrite(<<>>, DT_STRING, U16LeBytes(ENGLISH_US)))
                ELSE LET s == StringOf(index)
                     IN  IF s.some
                         THEN ControlInAcceptWriter(e, r, WriterString(<<>>, s.s))
                         ELSE AcceptIn(e, <<>>)
          [] OTHER -> Reject(e)

HandleGetDescriptor(e, r) ==
    LET dtype == DescriptorTypeIndex(r.value)[1]
        index == DescriptorTypeIndex(r.value)[2]
    IN  CASE dtype = DT_BOS -> AcceptIn(e, bos_descriptor)
          [] dtype = DT_DEVICE -> AcceptIn(e, device_descriptor)
          [] dtype = DT_CONFIGURATION -> AcceptIn(e, config_descriptor)
          [] dtype = DT_STRING ->
                IF index = 0
                THEN ControlInAcceptWriter(e, r,
                         WriterWrite(<<>>, DT_STRING, U16LeBytes(ENGLISH_US)))
                ELSE LET s == StringOf(index)
                     IN  IF s.some
                         THEN ControlInAcceptWriter(e, r, WriterString(<<>>, s.s))
                         ELSE Reject(e)
          [] OTHER -> Reject(e)

(***************************************************************************)
(* handle_control_in, lib.rs:244-311.                                      *)
(***************************************************************************)
\* the two status bits exchanged
DeviceStatusSwapped ==
    (IF self_powered THEN 2 ELSE 0) + (IF remote_wakeup_enabled THEN 1 ELSE 0)

\* lib.rs:266-272
DeviceStatus ==
    (IF self_powered THEN 1 ELSE 0) + (IF remote_wakeup_enabled THEN 2 ELSE 0)

\* lib.rs:282-286
EndpointStatus(ep) == IF BusIsStalled(ep) THEN 1 ELSE 0

\* lib.rs:295-298
ConfigurationStatus ==
    IF device_state = "Configured" THEN CONFIGURATION_VALUE ELSE CONFIGURATION_NONE

StandardControlIn(e, r) ==
    IF r.request_type = "Standard"
    THEN CASE r.recipient = "Device" /\ r.request = GET_STATUS
                -> AcceptIn(e, U16LeBytes(DeviceStatus))
           [] r.recipient = "Interface" /\ r.request = GET_STATUS
                -> AcceptIn(e, U16LeBytes(0))
           [] r.recipient = "Endpoint" /\ r.request = GET_STATUS
                -> LET ep == EndpointOf(r.index)
                   IN  AcceptIn([e EXCEPT !.calls = @ \o <<Call("bus.is_stalled", ep)>>],
                                U16LeBytes(EndpointStatus(ep)))
           [] r.recipient = "Device" /\ r.request = GET_DESCRIPTOR
                -> HandleGetDescriptor(e, r)
           [] r.recipient = "Device" /\ r.request = GET_CONFIGURATION
                -> AcceptIn(e, U8LeBytes(ConfigurationStatus))
           [] r.recipient = "Interface" /\ r.request = GET_INTERFACE
                -> AcceptIn(e, U8LeBytes(DEFAULT_ALTERNATE_SETTING))
           [] OTHER -> Reject(e)
    ELSE Reject(e)

\* the return after a class's reject left out: the standard table answers too
HandleControlInNoReturn(r, d) ==
    LET offered == [Keep EXCEPT !.calls = InvokedCalls("class.control_in", d.invoked)]
    IN  CASE d.status = "Accepted" -> AcceptIn(offered, d.data)
          [] d.status = "Rejected" -> StandardControlIn(Reject(offered), r)
          [] OTHER -> StandardControlIn(offered, r)

HandleControlIn(r, d) ==
    LET offered == [Keep EXCEPT !.calls = InvokedCalls("class.control_in", d.invoked)]
    IN  CASE d.status = "Accepted" -> AcceptIn(offered, d.data)
          [] d.status = "Rejected" -> Reject(offered)
          [] OTHER -> StandardControlIn(offered, r)

(***************************************************************************)
(* run, lib.rs:108-141.                                                    *)
(***************************************************************************)
\* OnReset forgetting to clear the remote wakeup flag
OnResetKeepsWakeup ==
    [Keep EXCEPT !.device_state = "Default",
                 !.pending_address = 0,
                 !.calls = <<Call("bus.reset", 0)>>
                           \o [i \in 1..NumClasses |-> Call("class.reset", i)]]

\* lib.rs:114-124
OnReset ==
    [Keep EXCEPT !.device_state = "Default",
                 !.remote_wakeup_enabled = FALSE,
                 !.pending_address = 0,
                 !.calls = <<Call("bus.reset", 0)>>
                           \o [i \in 1..NumClasses |-> Call("class.reset", i)]]

\* a Resume that leaves the Suspend state
OnResumeConfigures == [Keep EXCEPT !.device_state = "Configured"]

\* lib.rs:125
OnResume == Keep

\* a Suspend that also drops the remote wakeup flag
OnSuspendClearsWakeup ==
    [Keep EXCEPT !.device_state = "Suspend", !.remote_wakeup_enabled = FALSE,
                 !.calls = <<Call("bus.suspend", 0)>>]

\* lib.rs:126-129
OnSuspend ==
    [Keep EXCEPT !.device_state = "Suspend", !.calls = <<Call("bus.suspend", 0)>>]

OnEvent(evt) ==
    CASE evt = "Reset" -> OnReset
      [] evt = "Resume" -> OnResume
      [] evt = "Suspend" -> OnSuspend

\* the assignments of one handler, the iteration ending after it
Finish(e, first, r) ==
    /\ device_state' = e.device_state
    /\ remote_wakeup_enabled' = e.remote_wakeup_enabled
    /\ pending_address' = e.pending_address
    /\ stalled' = e.stalled
    /\ trace' = first \o e.calls
    /\ sent' = e.sent
    /\ req' = r
    /\ pc' = "iter_done"
    /\ UNCHANGED self_powered

TypeOK ==
    /\ device_state \in UsbDeviceState
    /\ remote_wakeup_enabled \in BOOLEAN
    /\ self_powered \in BOOLEAN
    /\ pending_address \in 0..255
    /\ pc \in {"select", "data_out", "iter_done", "panicked"}
    /\ bus_ready \in Event \cup {"None"}
    /\ setup_ready \in Requests \cup {NoReq}

\* the device built as self-powered
InitSelfPowered ==
    /\ device_state = "Default"
    /\ remote_wakeup_enabled = FALSE
    /\ self_powered = TRUE
    /\ pending_address = 0
    /\ stalled = {}
    /\ pc = "select"
    /\ req = NoReq
    /\ trace = <<>>
    /\ sent = <<>>
    /\ bus_ready = "None"
    /\ setup_ready = NoReq

Init ==
    /\ device_state = "Default"
    /\ remote_wakeup_enabled = FALSE
    /\ self_powered = FALSE
    /\ pending_address = 0
    /\ stalled = {}
    /\ pc = "select"
    /\ req = NoReq
    /\ trace = <<>>
    /\ sent = <<>>
    /\ bus_ready = "None"
    /\ setup_ready = NoReq

\* select yields Either::Left(evt).  Bus::reset re-initialises the driver: the
\* stall flags it keeps afterwards are the driver's choice.
BusEvent(evt) ==
    /\ pc = "select"
    /\ Finish(OnEvent(evt), <<Returned("bus.poll", 0, evt)>>, NoReq)
    /\ UNCHANGED ready

BusEventResetClears ==
    /\ pc = "select"
    /\ Finish([OnReset EXCEPT !.stalled = {}], <<Returned("bus.poll", 0, "Reset")>>, NoReq)
    /\ UNCHANGED ready

\* select yields Either::Right(req), direction In
ControlIn(r, d) ==
    /\ pc = "select"
    /\ r.direction = "In"
    /\ Finish(HandleControlIn(r, d), <<Call("control.setup", 0)>>, r)
    /\ UNCHANGED ready

\* select yields Either::Right(req), direction Out, no data stage
ControlOut(r, d) ==
    /\ pc = "select"
    /\ r.direction = "Out"
    /\ ~HasDataStage(r)
    /\ Finish(HandleControlOut(r, d), <<Call("control.setup", 0)>>, r)
    /\ UNCHANGED ready

\* select yields Either::Right(req), direction Out: data_out is awaited
ControlOutData(r) ==
    /\ pc = "select"
    /\ r.direction = "Out"
    /\ HasDataStage(r)
    /\ pc' = "data_out"
    /\ req' = r
    /\ trace' = <<Call("control.setup", 0), Call("control.data_out", 0)>>
    /\ UNCHANGED <<core, stalled, sent, ready>>

\* data_out returned Ok(size)
DataOutOk(d) ==
    /\ pc = "data_out"
    /\ Finish(HandleControlOut(req, d), trace, req)
    /\ UNCHANGED ready

\* data_out returned Err: unwrap panics and run never resumes
DataOutErr ==
    /\ pc = "data_out"
    /\ pc' = "panicked"
    /\ UNCHANGED <<core, stalled, req, trace, sent, ready>>

\* the loop of run goes round: the log of the finished iteration is dropped
Loop ==
    /\ pc = "iter_done"
    /\ pc' = "select"
    /\ req' = NoReq
    /\ trace' = <<>>
    /\ sent' = <<>>
    /\ UNCHANGED <<core, stalled, ready>>

\* the Setup packet and the classes' answers are inputs
SetupIn == pc = "select" /\ \E r \in Requests : \E d \in InDispatches : ControlIn(r, d)
SetupOut == pc = "select" /\ \E r \in Requests : \E d \in OutDispatches : ControlOut(r, d)
SetupOutData == pc = "select" /\ \E r \in Requests : ControlOutData(r)
DataStageRead == pc = "data_out" /\ \E d \in OutDispatches : DataOutOk(d)

Next ==
    \/ \E evt \in Event : BusEvent(evt)
    \/ BusEventResetClears
    \/ SetupIn
    \/ SetupOut
    \/ SetupOutData
    \/ DataStageRead
    \/ DataOutErr
    \/ Loop

Spec == Init /\ [][Next]_vars

(***************************************************************************)
(* The race of run() with both sources made explicit: the bus and the host *)
(* make an event or a Setup packet ready at any time, wherever run() is,   *)
(* and select hands over one of the values that are ready.  A future that  *)
(* is dropped by select keeps what it had to offer (driver contract).      *)
(***************************************************************************)
RaceRequests ==
    {Request("In", "Standard", "Device", GET_STATUS, 0, 1, 2),
     Request("Out", "Standard", "Device", SET_CONFIGURATION, CONFIGURATION_VALUE, 1, 0),
     Request("Out", "Standard", "Device", SET_ADDRESS, 2, 1, 2)}

\* the bus raises an event: Bus::poll becomes ready
BusRaises(evt) ==
    /\ bus_ready = "None"
    /\ bus_ready' = evt
    /\ UNCHANGED <<core, stalled, pc, req, trace, sent, setup_ready>>

\* the host sends a Setup packet: ControlPipe::setup becomes ready
HostSendsSetup(r) ==
    /\ setup_ready = NoReq
    /\ setup_ready' = r
    /\ UNCHANGED <<core, stalled, pc, req, trace, sent, bus_ready>>

\* what Bus::reset may leave of the stall flags
ResetOutcomes(evt) ==
    IF evt = "Reset" THEN {OnReset, [OnReset EXCEPT !.stalled = {}]} ELSE {OnEvent(evt)}

\* a select that takes the Setup packet away along with the event
SelectBusDropsSetup ==
    /\ pc = "select"
    /\ bus_ready # "None"
    /\ \E e \in ResetOutcomes(bus_ready) :
           Finish(e, <<Returned("bus.poll", 0, bus_ready)>>, NoReq)
    /\ bus_ready' = "None"
    /\ setup_ready' = NoReq

\* lib.rs:112-130: select yields Either::Left(evt); control_fut is dropped
SelectBus ==
    /\ pc = "select"
    /\ bus_ready # "None"
    /\ \E e \in ResetOutcomes(bus_ready) :
           Finish(e, <<Returned("bus.poll", 0, bus_ready)>>, NoReq)
    /\ bus_ready' = "None"
    /\ UNCHANGED setup_ready

\* lib.rs:131-135: select yields Either::Right(req), direction In; bus_fut is dropped
SelectSetupIn ==
    /\ pc = "select"
    /\ setup_ready # NoReq
    /\ setup_ready.direction = "In"
    /\ \E d \in InDispatches :
           Finish(HandleControlIn(setup_ready, d), <<Call("control.setup", 0)>>, setup_ready)
    /\ setup_ready' = NoReq
    /\ UNCHANGED bus_ready

\* lib.rs:131-136: select yields Either::Right(req), direction Out, no data stage
SelectSetupOut ==
    /\ pc = "select"
    /\ setup_ready # NoReq
    /\ setup_ready.direction = "Out"
    /\ ~HasDataStage(setup_ready)
    /\ \E d \in OutDispatches :
           Finish(HandleControlOut(setup_ready, d), <<Call("control.setup", 0)>>, setup_ready)
    /\ setup_ready' = NoReq
    /\ UNCHANGED bus_ready

\* lib.rs:131-159: select yields Either::Right(req), direction Out: data_out is awaited
SelectSetupOutData ==
    /\ pc = "select"
    /\ setup_ready # NoReq
    /\ setup_ready.direction = "Out"
    /\ HasDataStage(setup_ready)
    /\ pc' = "data_out"
    /\ req' = setup_ready
    /\ trace' = <<Call("control.setup", 0), Call("control.data_out", 0)>>
    /\ setup_ready' = NoReq
    /\ UNCHANGED <<core, stalled, sent, bus_ready>>

NextRace ==
    \/ \E evt \in Event : BusRaises(evt)
    \/ \E r \in RaceRequests : HostSendsSetup(r)
    \/ SelectBus
    \/ SelectSetupIn
    \/ SelectSetupOut
    \/ SelectSetupOutData
    \/ DataStageRead
    \/ DataOutErr
    \/ Loop

SpecRace == Init /\ [][NextRace]_vars

(***************************************************************************)
(* Reading the call log of an iteration.                                   *)
(***************************************************************************)
IterDone == pc = "iter_done"

\* the iteration handled a Setup packet
IsTransfer == trace # <<>> /\ trace[1].op = "control.setup"

\* the iteration handled the bus event evt
IsEvent(evt) == trace # <<>> /\ trace[1] = Returned("bus.poll", 0, evt)

IsClassCall(c) == c.op \in {"class.control_out", "class.control_in"}
IsReply(c) == c.op \in {"accept", "accept_in", "reject"}

ClassCalls == SelectSeq(trace, IsClassCall)
Replies == SelectSeq(trace, IsReply)
Count(op, arg) == Cardinality({k \in 1..Len(trace) : trace[k].op = op /\ trace[k].arg = arg})
Position(op) == CHOOSE k \in 1..Len(trace) : trace[k].op = op
Called(op) == \E k \in 1..Len(trace) : trace[k].op = op
LastCall == trace[Len(trace)]

\* every class was offered the request and returned Unhandled
AllUnhandled ==
    /\ Len(ClassCalls) = NumClasses
    /\ \A k \in 1..NumClasses : ClassCalls[k].ret = "Unhandled"

\* the transfer was finished by the core's own tables
CoreHandled == IterDone /\ IsTransfer /\ AllUnhandled

\* some class claimed the request
ClassClaimed ==
    /\ IterDone /\ IsTransfer
    /\ \E k \in 1..Len(ClassCalls) : ClassCalls[k].ret # "Unhandled"

(***************************************************************************)
(* C1: after a bus Reset event has been handled, from whatever state, the  *)
(* device state is Default, remote wakeup is disabled, the pending address *)
(* is 0, Bus::reset was called, and the reset hook of every registered     *)
(* class was invoked exactly once.                                         *)
(***************************************************************************)
C1_ResetForcesDefault ==
    (IterDone /\ IsEvent("Reset")) =>
        /\ device_state = "Default"
        /\ remote_wakeup_enabled = FALSE
        /\ pending_address = 0
        /\ Count("bus.reset", 0) = 1
        /\ \A i \in Classes : Count("class.reset", i) = 1

\* a Reset handled after earlier requests had stalled an endpoint
C1_Witness == IterDone /\ IsEvent("Reset") /\ stalled # {}

ClassOp == IF req.direction = "In" THEN "class.control_in" ELSE "class.control_out"
AcceptOp == IF req.direction = "In" THEN "accept_in" ELSE "accept"

InRegistrationOrder ==
    \A k \in 1..Len(ClassCalls) :
        /\ ClassCalls[k].arg = k
        /\ ClassCalls[k].op = ClassOp
        /\ k < Len(ClassCalls) => ClassCalls[k].ret = "Unhandled"

ClaimDecides ==
    LET last == ClassCalls[Len(ClassCalls)]
    IN  /\ Len(Replies) = 1
        /\ LastCall = Replies[1]
        /\ trace[Len(trace) - 1] = last
        /\ last.ret = "Accepted" => LastCall.op = AcceptOp
        /\ last.ret = "Rejected" => LastCall.op = "reject"
        /\ ~Called("bus.set_stalled") /\ ~Called("bus.is_stalled")

(***************************************************************************)
(* C2: classes are offered a request one at a time in registration order   *)
(* and the loop stops at the first class that returns Accepted or          *)
(* Rejected: no later class is invoked, the core's tables are not          *)
(* consulted (device state, remote wakeup, pending address and the stall   *)
(* flags keep their values), and the reply is accept (OUT) or accept_in    *)
(* (IN) for Accepted and reject for Rejected.                              *)
(***************************************************************************)
C2_FirstClaimStopsDispatch ==
    [][ (IterDone' /\ ~IterDone /\ IsTransfer')
          => /\ InRegistrationOrder'
             /\ ClassClaimed' => (ClaimDecides' /\ UNCHANGED <<core, stalled>>) ]_vars

\* class 1 accepted SET_CONFIGURATION(1): class 2 was not asked and the device
\* was not configured
C2_Witness ==
    /\ ClassClaimed
    /\ NumClasses >= 2
    /\ Len(ClassCalls) = 1
    /\ req.request_type = "Standard" /\ req.recipient = "Device"
    /\ req.direction = "Out" /\ req.request = SET_CONFIGURATION
    /\ req.value = CONFIGURATION_VALUE
    /\ LastCall.op = "accept"
    /\ device_state = "Default"

(***************************************************************************)
(* C3: every control-IN reply that carries data is cut to the requested    *)
(* length: accept_in is never handed more than req.length bytes.  Stated   *)
(* here for the replies the core itself produces (no class claimed the     *)
(* request).                                                               *)
(***************************************************************************)
C3_CoreRepliesCutToRequestedLength ==
    (CoreHandled /\ LastCall.op = "accept_in") => Len(sent) <= req.length

FirstClassPosition == IF Called("control.data_out") THEN 3 ELSE 2

InFlight == IsTransfer /\ Replies = <<>>

TransferOrder ==
    IsTransfer =>
        /\ Count("control.setup", 0) = 1
        /\ Called("control.data_out") <=> (req.direction = "Out" /\ req.length > 0)
        /\ Called("control.data_out") =>
              (Count("control.data_out", 0) = 1 /\ trace[2].op = "control.data_out")
        /\ \A k \in 1..Len(trace) :
              /\ IsClassCall(trace[k]) =>
                    (k >= FirstClassPosition /\ \A j \in 1..k : ~IsReply(trace[j]))
              /\ IsReply(trace[k]) => k = Len(trace)
        /\ IterDone => Len(Replies) = 1
        /\ InFlight => pc \in {"data_out", "panicked"}

StartsIteration == trace' # <<>> /\ (trace = <<>> \/ SubSeq(trace', 1, Len(trace)) # trace)

(***************************************************************************)
(* C4: within one control transfer the calls are, in order, setup, then    *)
(* the data-stage read exactly when the request is OUT with length > 0,    *)
(* then the classes, then one reply, which ends the transfer; an iteration *)
(* (the next setup, or a bus event) starts only from the select point,     *)
(* where no transfer is in flight.                                         *)
(***************************************************************************)
C4_OneTransferAtATime ==
    /\ []TransferOrder
    /\ [][StartsIteration => (pc = "select" /\ ~InFlight /\ req = NoReq)]_vars

\* a finished OUT transfer with a data stage that went through the classes to
\* the core's reply
C4_Witness ==
    /\ CoreHandled
    /\ Called("control.data_out")
    /\ Len(trace) = 2 + NumClasses + 1
    /\ IsReply(LastCall)

\* the entries of the OUT table: (recipient, request code, value)
MatchesOutTable(r) ==
    /\ r.request_type = "Standard"
    /\ \/ r.recipient = "Device" /\ r.request = CLEAR_FEATURE /\ r.value = 1
       \/ r.recipient = "Endpoint" /\ r.request = CLEAR_FEATURE /\ r.value = 0
       \/ r.recipient = "Device" /\ r.request = SET_FEATURE /\ r.value = 1
       \/ r.recipient = "Endpoint" /\ r.request = SET_FEATURE /\ r.value = 0
       \/ r.recipient = "Device" /\ r.request = SET_ADDRESS /\ r.value >= 1 /\ r.value <= 127
       \/ r.recipient = "Device" /\ r.request = SET_CONFIGURATION /\ r.value \in {0, 1}
       \/ r.recipient = "Interface" /\ r.request = SET_INTERFACE /\ r.value = 0

\* the entries of the IN table: (recipient, request code)
MatchesInTable(r) ==
    /\ r.request_type = "Standard"
    /\ <<r.recipient, r.request>> \in
          {<<"Device", GET_STATUS>>, <<"Interface", GET_STATUS>>,
           <<"Endpoint", GET_STATUS>>, <<"Device", GET_DESCRIPTOR>>,
           <<"Device", GET_CONFIGURATION>>, <<"Interface", GET_INTERFACE>>}

Unmatched(r) ==
    IF r.direction = "In" THEN ~MatchesInTable(r) ELSE ~MatchesOutTable(r)

(***************************************************************************)
(* C5: a request that every class leaves Unhandled and that matches no     *)
(* entry of the standard request table is answered with reject, exactly    *)
(* once, and with neither accept nor accept_in.                            *)
(***************************************************************************)
C5_UnmatchedRequestStalls ==
    (CoreHandled /\ Unmatched(req)) =>
        /\ Len(Replies) = 1
        /\ LastCall.op = "reject"
        /\ ~Called("accept") /\ ~Called("accept_in")

\* SET_CONFIGURATION sent as a Class request, unclaimed: stalled
C5_Witness ==
    /\ CoreHandled
    /\ req.direction = "Out" /\ req.request_type = "Class"
    /\ req.recipient = "Device" /\ req.request = SET_CONFIGURATION
    /\ req.value = CONFIGURATION_VALUE
    /\ LastCall.op = "reject"

(***************************************************************************)
(* C6: a failure of data_out abandons only the transfer: the run loop      *)
(* keeps running (it never stops for good).                                *)
(***************************************************************************)
C6_RunSurvivesDataOutFailure == pc # "panicked"

\* the step finishes a transfer that the core's tables resolved
FinishesCoreHandled == CoreHandled' /\ ~IterDone

IsStandardTo(r, dir, recipient, request) ==
    /\ r.direction = dir /\ r.request_type = "Standard"
    /\ r.recipient = recipient /\ r.request = request

Bit(b) == IF b THEN 1 ELSE 0

(***************************************************************************)
(* C7: an unclaimed SET_FEATURE(DEVICE_REMOTE_WAKEUP) sets the remote      *)
(* wakeup flag and an unclaimed CLEAR_FEATURE(DEVICE_REMOTE_WAKEUP) clears *)
(* it; nothing but the end of an iteration changes the flags; and an       *)
(* unclaimed GET_STATUS(Device) hands to accept_in the 16-bit              *)
(* little-endian word with bit0 = self-powered and bit1 = the flag as the  *)
(* previous iteration left it, all other bits zero.                        *)
(***************************************************************************)
C7_StatusRoundTrip ==
    [][ /\ (FinishesCoreHandled /\ IsStandardTo(req', "Out", "Device", SET_FEATURE)
              /\ req'.value = FEATURE_DEVICE_REMOTE_WAKEUP)
            => (remote_wakeup_enabled' = TRUE /\ LastCall'.op = "accept")
        /\ (FinishesCoreHandled /\ IsStandardTo(req', "Out", "Device", CLEAR_FEATURE)
              /\ req'.value = FEATURE_DEVICE_REMOTE_WAKEUP)
            => (remote_wakeup_enabled' = FALSE /\ LastCall'.op = "accept")
        /\ (FinishesCoreHandled /\ IsStandardTo(req', "In", "Device", GET_STATUS))
            => /\ LastCall'.op = "accept_in"
               /\ sent' = <<Bit(self_powered) + 2 * Bit(remote_wakeup_enabled), 0>>
               /\ UNCHANGED <<remote_wakeup_enabled, self_powered>>
        /\ ~IterDone' => UNCHANGED <<remote_wakeup_enabled, self_powered>>
      ]_vars

\* GET_STATUS(Device) answered with bit1 set
C7_Witness ==
    /\ CoreHandled
    /\ IsStandardTo(req, "In", "Device", GET_STATUS)
    /\ sent = <<2, 0>>

(***************************************************************************)
(* C8: an unclaimed SET_CONFIGURATION(1) leaves the device Configured, an  *)
(* unclaimed SET_CONFIGURATION(0) received while Configured leaves it      *)
(* Addressed, nothing but the end of an iteration changes the device       *)
(* state, and an unclaimed GET_CONFIGURATION answers the single byte       *)
(* CONFIGURATION_VALUE exactly when the state is Configured and            *)
(* CONFIGURATION_NONE otherwise.                                           *)
(***************************************************************************)
C8_ConfigurationRoundTrip ==
    [][ /\ (FinishesCoreHandled /\ IsStandardTo(req', "Out", "Device", SET_CONFIGURATION)
              /\ req'.value = 1)
            => (device_state' = "Configured" /\ LastCall'.op = "accept")
        /\ (FinishesCoreHandled /\ IsStandardTo(req', "Out", "Device", SET_CONFIGURATION)
              /\ req'.value = 0 /\ device_state = "Configured")
            => (device_state' = "Addressed" /\ LastCall'.op = "accept")
        /\ (FinishesCoreHandled /\ IsStandardTo(req', "In", "Device", GET_CONFIGURATION))
            => /\ LastCall'.op = "accept_in"
               /\ sent' = <<IF device_state = "Configured"
                            THEN CONFIGURATION_VALUE ELSE CONFIGURATION_NONE>>
               /\ UNCHANGED device_state
        /\ ~IterDone' => UNCHANGED device_state
      ]_vars

\* GET_CONFIGURATION answered 0 in the Addressed state
C8_Witness ==
    /\ CoreHandled
    /\ IsStandardTo(req, "In", "Device", GET_CONFIGURATION)
    /\ device_state = "Addressed"
    /\ sent = <<0>>

(***************************************************************************)
(* C9: the device state changes only in a step that handles a Reset or a   *)
(* Suspend event or that finishes a SET_CONFIGURATION or SET_ADDRESS       *)
(* request; a Resume event, every control-IN request and every other       *)
(* control-OUT request leave it unchanged.                                 *)
(***************************************************************************)
C9_StateChangesOnlyOn ==
    [][ device_state' # device_state =>
          /\ IterDone'
          /\ \/ IsEvent("Reset")'
             \/ IsEvent("Suspend")'
             \/ /\ IsTransfer'
                /\ req'.direction = "Out"
                /\ req'.request \in {SET_CONFIGURATION, SET_ADDRESS}
      ]_vars

\* a Resume handled while suspended: still Suspend
C9_Witness == IterDone /\ IsEvent("Resume") /\ device_state = "Suspend"

IsGetDescriptor == CoreHandled /\ IsStandardTo(req, "In", "Device", GET_DESCRIPTOR)

DType == (req.value \div 256) % 256
DIndex == req.value % 256

RejectsUnknownDescriptor ==
    (IsGetDescriptor /\ (\/ DType = DT_STRING /\ DIndex \notin 0..3
                         \/ DType \notin {DT_BOS, DT_DEVICE, DT_CONFIGURATION, DT_STRING}))
        => (LastCall.op = "reject" /\ ~Called("accept_in") /\ sent = <<>>)

LangIdDescriptor == <<4, DT_STRING, ENGLISH_US % 256, ENGLISH_US \div 256>>

\* C10 as written: unknown descriptors stall, and the reply to STRING index 0 is
\* the whole string descriptor, whatever the requested length
C10_AsClaimed ==
    /\ RejectsUnknownDescriptor
    /\ (IsGetDescriptor /\ DType = DT_STRING /\ DIndex = 0)
          => (LastCall.op = "accept_in" /\ sent = LangIdDescriptor)

(***************************************************************************)
(* C10: an unclaimed GET_DESCRIPTOR to the device is answered with reject  *)
(* when the type is STRING with an index outside 0..3, or is none of BOS,  *)
(* DEVICE, CONFIGURATION, STRING.  For STRING index 0 the reply is the     *)
(* string descriptor 4, STRING, language ID (little-endian), cut to the    *)
(* requested length.                                                       *)
(***************************************************************************)
C10_UnknownDescriptorStalls ==
    /\ RejectsUnknownDescriptor
    /\ (IsGetDescriptor /\ DType = DT_STRING /\ DIndex = 0)
          => /\ LastCall.op = "accept_in"
             /\ sent = SubSeq(LangIdDescriptor, 1, Min(4, req.length))
             /\ req.length >= 4 => sent = LangIdDescriptor

\* GET_DESCRIPTOR(STRING, 99), unclaimed: stalled
C10_Witness ==
    /\ IsGetDescriptor
    /\ DType = DT_STRING /\ DIndex = 99
    /\ LastCall.op = "reject"

(***************************************************************************)
(* C11: whenever the device state is Addressed, the pending address is     *)
(* not zero: the device has received an address from the host.             *)
(***************************************************************************)
C11_AddressedHasAddress == device_state = "Addressed" => pending_address # 0

(***************************************************************************)
(* C12: an unclaimed SET_ADDRESS with value v in 1..127 is accepted and    *)
(* leaves the pending address equal to v; with value 0 or above 127 it is  *)
(* rejected and the pending address keeps its value; the pending address   *)
(* is always in 0..127.                                                    *)
(***************************************************************************)
C12_SetAddressLatches ==
    /\ [](pending_address \in 0..127)
    /\ [][ (FinishesCoreHandled /\ IsStandardTo(req', "Out", "Device", SET_ADDRESS)) =>
             IF req'.value >= 1 /\ req'.value <= 127
             THEN /\ LastCall'.op = "accept"
                  /\ pending_address' = req'.value
             ELSE /\ LastCall'.op = "reject"
                  /\ pending_address' = pending_address
       ]_vars

\* SET_ADDRESS(127), unclaimed: latched
C12_Witness ==
    /\ CoreHandled
    /\ IsStandardTo(req, "Out", "Device", SET_ADDRESS)
    /\ req.value = 127
    /\ pending_address = 127
    /\ LastCall.op = "accept"

(***************************************************************************)
(* C13: an unclaimed SET_CONFIGURATION(NONE) is always accepted; the state *)
(* stays Default when it was Default and becomes Addressed when it was     *)
(* Addressed, Configured or Suspend.  An unclaimed                         *)
(* SET_CONFIGURATION(VALUE) is accepted and leaves the state Configured,   *)
(* whatever it was.                                                        *)
(***************************************************************************)
C13_SetConfiguration ==
    [][ (FinishesCoreHandled /\ IsStandardTo(req', "Out", "Device", SET_CONFIGURATION)) =>
          /\ req'.value = CONFIGURATION_NONE =>
                /\ LastCall'.op = "accept"
                /\ device_state = "Default" => device_state' = "Default"
                /\ device_state \in {"Addressed", "Configured", "Suspend"}
                      => device_state' = "Addressed"
          /\ req'.value = CONFIGURATION_VALUE =>
                /\ LastCall'.op = "accept"
                /\ device_state' = "Configured"
      ]_vars

\* SET_CONFIGURATION(NONE), unclaimed, on a device in Default
C13_Witness ==
    /\ CoreHandled
    /\ IsStandardTo(req, "Out", "Device", SET_CONFIGURATION)
    /\ req.value = CONFIGURATION_NONE
    /\ device_state = "Default"
    /\ LastCall.op = "accept"

\* SET_FEATURE(ENDPOINT_HALT) / GET_STATUS to an endpoint, finished by the core
FinishesSetHalt ==
    /\ FinishesCoreHandled
    /\ IsStandardTo(req', "Out", "Endpoint", SET_FEATURE)
    /\ req'.value = FEATURE_ENDPOINT_HALT

FinishesEndpointStatus ==
    /\ FinishesCoreHandled
    /\ IsStandardTo(req', "In", "Endpoint", GET_STATUS)

\* the finished iteration made the call op(arg) exactly once
CalledOnceNext(op, arg) ==
    Cardinality({k \in 1..Len(trace') : trace'[k].op = op /\ trace'[k].arg = arg}) = 1

\* bits 0..6 and bit 7 of the index
LowSevenAndDirection(i) == (i % 128) + 128 * ((i \div 128) % 2)

\* bits 0..3 and bit 7 of the index
LowFourAndDirection(i) == (i % 16) + 128 * ((i \div 128) % 2)

\* C14 as written: the endpoint is named by the 7 low bits and the direction
\* bit of the index, so indices that differ in any of these 8 bits name
\* different endpoints
C14_AsClaimed ==
    [][ /\ FinishesSetHalt =>
              /\ stalled' = stalled \cup {LowSevenAndDirection(req'.index)}
              /\ CalledOnceNext("bus.set_stalled", LowSevenAndDirection(req'.index))
        /\ FinishesEndpointStatus =>
              sent' = <<Bit(LowSevenAndDirection(req'.index) \in stalled), 0>>
      ]_vars

(***************************************************************************)
(* C14: an unclaimed SET_FEATURE(ENDPOINT_HALT) with index i stalls at the *)
(* Bus exactly the endpoint whose address is the 4 low bits plus the       *)
(* direction bit (bit 7) of i, and GET_STATUS(Endpoint) with index i       *)
(* reports bit0 = the stalled state of that same endpoint; two indices     *)
(* name the same endpoint exactly when they agree in these 5 bits, and     *)
(* bits 4..6 and 8..15 of the index are ignored.                           *)
(***************************************************************************)
C14_EndpointNamedByIndex ==
    [][ /\ FinishesSetHalt =>
              /\ stalled' = stalled \cup {LowFourAndDirection(req'.index)}
              /\ CalledOnceNext("bus.set_stalled", LowFourAndDirection(req'.index))
              /\ LastCall'.op = "accept"
        /\ FinishesEndpointStatus =>
              /\ CalledOnceNext("bus.is_stalled", LowFourAndDirection(req'.index))
              /\ sent' = <<Bit(LowFourAndDirection(req'.index) \in stalled), 0>>
              /\ LastCall'.op = "accept_in"
        /\ (FinishesSetHalt \/ FinishesEndpointStatus) =>
              \A j \in Indices :
                  (EndpointOf(j) = EndpointOf(req'.index))
                      <=> (j % 16 = req'.index % 16
                           /\ (j \div 128) % 2 = (req'.index \div 128) % 2)
      ]_vars

\* GET_STATUS of index 17 reports the stall set through index 1
C14_Witness ==
    /\ CoreHandled
    /\ IsStandardTo(req, "In", "Endpoint", GET_STATUS)
    /\ req.index = 17
    /\ stalled = {1}
    /\ sent = <<1, 0>>

(***************************************************************************)
(* C15: an unclaimed CLEAR_FEATURE(ENDPOINT_HALT) to an endpoint is        *)
(* accepted and leaves the stall state of every endpoint unchanged; a      *)
(* stall set by SET_FEATURE(ENDPOINT_HALT) is removed by no step but one   *)
(* that handles a Reset, so GET_STATUS of the endpoint keeps reporting     *)
(* bit0 = 1 after the CLEAR_FEATURE.                                       *)
(***************************************************************************)
C15_ClearHaltKeepsStall ==
    [][ /\ (/\ FinishesCoreHandled
            /\ IsStandardTo(req', "Out", "Endpoint", CLEAR_FEATURE)
            /\ req'.value = FEATURE_ENDPOINT_HALT) =>
              /\ LastCall'.op = "accept"
              /\ stalled' = stalled
              /\ ~Called("bus.set_stalled")'
        /\ (\E ep \in stalled : ep \notin stalled') => (IterDone' /\ IsEvent("Reset")')
        /\ (FinishesEndpointStatus /\ EndpointOf(req'.index) \in stalled) =>
              sent' = <<1, 0>>
      ]_vars

\* CLEAR_FEATURE(ENDPOINT_HALT) on a stalled endpoint: still stalled
C15_Witness ==
    /\ CoreHandled
    /\ IsStandardTo(req, "Out", "Endpoint", CLEAR_FEATURE)
    /\ req.value = FEATURE_ENDPOINT_HALT
    /\ EndpointOf(req.index) \in stalled
    /\ LastCall.op = "accept"

\* the step handles the bus event evt
HandlesEvent(evt) == ~IterDone /\ IterDone' /\ IsEvent(evt)'

(***************************************************************************)
(* C16: a Suspend event calls the Bus suspend operation and leaves the     *)
(* state Suspend from any state, the remote wakeup flag and the pending    *)
(* address unchanged; a Resume event changes no state; once in Suspend,    *)
(* the state stays Suspend until a Reset or a SET_CONFIGURATION request.   *)
(***************************************************************************)
C16_SuspendResume ==
    [][ /\ HandlesEvent("Suspend") =>
              /\ device_state' = "Suspend"
              /\ Count("bus.suspend", 0)' = 1
              /\ UNCHANGED <<remote_wakeup_enabled, pending_address, self_powered, stalled>>
        /\ HandlesEvent("Resume") =>
              /\ UNCHANGED <<core, stalled>>
              /\ Len(trace') = 1
        /\ (device_state = "Suspend" /\ device_state' # "Suspend") =>
              \/ IsEvent("Reset")'
              \/ IsTransfer' /\ IsStandardTo(req', "Out", "Device", SET_CONFIGURATION)
      ]_vars

\* a Suspend handled with the wakeup flag set and an address pending
C16_Witness ==
    /\ IterDone /\ IsEvent("Suspend")
    /\ device_state = "Suspend"
    /\ remote_wakeup_enabled
    /\ pending_address # 0

(***************************************************************************)
(* C18: every consumed Setup whose data stage succeeds gets exactly one    *)
(* reply among accept, accept_in and reject, made last; accept only for a  *)
(* request of direction OUT and accept_in only for one of direction IN.    *)
(* No transfer ever holds a second reply.                                  *)
(***************************************************************************)
C18_ExactlyOneReply ==
    /\ Len(Replies) <= 1
    /\ (IterDone /\ IsTransfer) =>
          /\ Len(Replies) = 1
          /\ IsReply(LastCall)
          /\ LastCall.op = "accept" => req.direction = "Out"
          /\ LastCall.op = "accept_in" => req.direction = "In"
    /\ (IsTransfer /\ ~IterDone) => Replies = <<>>

\* an IN request that a class rejected: the one reply is its reject
C18_Witness ==
    /\ IterDone /\ IsTransfer
    /\ req.direction = "In"
    /\ ClassClaimed
    /\ Replies = <<Call("reject", 0)>>

\* the step finishes a control transfer
FinishesTransfer == ~IterDone /\ IterDone' /\ IsTransfer'

(***************************************************************************)
(* C19: every request answered with reject leaves the device state, the    *)
(* remote wakeup flag, the pending address and the stall state of the Bus  *)
(* unchanged; these change only in a transfer that ends in accept.         *)
(***************************************************************************)
C19_RejectChangesNothing ==
    [][ FinishesTransfer =>
          /\ LastCall'.op = "reject" => UNCHANGED <<core, stalled>>
          /\ ~(UNCHANGED <<core, stalled>>) => LastCall'.op = "accept"
      ]_vars

\* SET_ADDRESS(128) rejected while the address 127 is pending
C19_Witness ==
    /\ CoreHandled
    /\ IsStandardTo(req, "Out", "Device", SET_ADDRESS)
    /\ req.value = 128
    /\ LastCall.op = "reject"
    /\ pending_address = 127

(***************************************************************************)
(* C20: the self-powered flag is false at construction and in every state  *)
(* after it, a Reset included, so the word reported by an unclaimed        *)
(* GET_STATUS to the device has bit0 = 0: it is 0x0000 or 0x0002.          *)
(***************************************************************************)
C20_NeverSelfPowered ==
    /\ self_powered = FALSE
    /\ (CoreHandled /\ IsStandardTo(req, "In", "Device", GET_STATUS)) =>
          /\ LastCall.op = "accept_in"
          /\ sent \in {<<0, 0>>, <<2, 0>>}

\* GET_STATUS of a configured device without remote wakeup: 0x0000
C20_Witness ==
    /\ CoreHandled
    /\ IsStandardTo(req, "In", "Device", GET_STATUS)
    /\ device_state = "Configured"
    /\ sent = <<0, 0>>

\* the sources the finished iteration took a value from
SourcesHandled == {k \in 1..Len(trace) : trace[k].op \in {"bus.poll", "control.setup"}}

====
